---- MODULE Spec2Model ----
(***************************************************************************)
(* Model of the dorado-be waitlist backend (src/main.go).                  *)
(*                                                                         *)
(* A Go string is a sequence of one-character strings.  The characters the *)
(* model draws inputs from are ASCII letters, '.', '@', '<', '>', '"',     *)
(* '\', space and tab; the parts of net/mail that only other characters   *)
(* reach (parenthesised comments, groups "name: ...;", RFC 2047 encoded    *)
(* words, domain literals, non-ASCII text) are outside the model.          *)
(***************************************************************************)
EXTENDS Integers, Sequences, FiniteSets, TLC

---------------------------------------------------------------------------
(* Program constants *)

MaxEmailLen == 254
MaxLocalLen == 64
MaxDomainLen == 255
RateLimit == 10

(* The validation messages of validateEmail *)
MsgEmpty == "email cannot be empty"
MsgTooLong == "email is too long (max 254 characters)"
MsgFormat == "invalid email format"
MsgLocal == "email local part is invalid"
MsgDomain == "email domain is invalid"
MsgNoDot == "email domain must contain at least one dot"

---------------------------------------------------------------------------
(* package strings *)

WSP == {" ", "\t"}

(* unicode.IsSpace on the model's characters *)
IsSpace(c) == c \in {" ", "\t", "\n", "\r"}

RECURSIVE TrimLeftSpace(_)
TrimLeftSpace(s) ==
    IF s # <<>> /\ IsSpace(Head(s)) THEN TrimLeftSpace(Tail(s)) ELSE s

RECURSIVE TrimRightSpace(_)
TrimRightSpace(s) ==
    IF s # <<>> /\ IsSpace(s[Len(s)])
    THEN TrimRightSpace(SubSeq(s, 1, Len(s) - 1))
    ELSE s

TrimSpace(s) == TrimRightSpace(TrimLeftSpace(s))

LowerLetters ==
    <<"a", "b", "c", "d", "e", "f", "g", "h", "i", "j", "k", "l", "m", "n", "o", "p", "q", "r", "s", "t", "u", "v", "w", "x", "y", "z">>

UpperLetters ==
    <<"A", "B", "C", "D", "E", "F", "G", "H", "I", "J", "K", "L", "M", "N", "O", "P", "Q", "R", "S", "T", "U", "V", "W", "X", "Y", "Z">>

(* unicode.ToLower on an ASCII character *)
LowerChar(c) ==
    IF \E k \in 1..Len(UpperLetters) : UpperLetters[k] = c
    THEN LowerLetters[CHOOSE k \in 1..Len(UpperLetters) : UpperLetters[k] = c]
    ELSE c

UpperChar(c) ==
    IF \E k \in 1..Len(LowerLetters) : LowerLetters[k] = c
    THEN UpperLetters[CHOOSE k \in 1..Len(LowerLetters) : LowerLetters[k] = c]
    ELSE c

ToLower(s) == [i \in 1..Len(s) |-> LowerChar(s[i])]

(* the least element of a non-empty set of positions *)
FirstOf(S) == CHOOSE x \in S : \A y \in S : x <= y

(* strings.Split(s, sep) for a one-character separator: the pieces        *)
(* between consecutive occurrences of sep.                                 *)
Split(s, sep) ==
    LET P == {i \in 1..Len(s) : s[i] = sep}
        n == Cardinality(P)
        pos(k) == IF k = 0 THEN 0
                  ELSE IF k = n + 1 THEN Len(s) + 1
                  ELSE CHOOSE p \in P : Cardinality({q \in P : q < p}) = k - 1
    IN  [k \in 1..(n + 1) |-> SubSeq(s, pos(k - 1) + 1, pos(k) - 1)]

Contains(s, c) == \E i \in 1..Len(s) : s[i] = c

HasPrefix(s, p) == Len(s) >= Len(p) /\ SubSeq(s, 1, Len(p)) = p

TrimPrefix(s, p) == IF HasPrefix(s, p) THEN SubSeq(s, Len(p) + 1, Len(s)) ELSE s

---------------------------------------------------------------------------
(* package net/mail: the address parser behind mail.ParseAddress.         *)
(* The parser's remaining input p.s is the suffix of s that starts at i.   *)

isVchar(c) == c \notin {" ", "\t", "\n", "\r"}

Specials == {"(", ")", "<", ">", "[", "]", ":", ";", "@", "\\", ",", "\""}

isAtext(c, dot) ==
    IF c = "." THEN dot
    ELSE IF c \in Specials THEN FALSE
    ELSE isVchar(c)

isQtext(c) == IF c = "\\" \/ c = "\"" THEN FALSE ELSE isVchar(c)

(* skipSpace: the position of the first character from i on that is    *)
(* neither space nor tab.                                                  *)
skipSpace(s, i) ==
    FirstOf({j \in i..(Len(s) + 1) : j = Len(s) + 1 \/ s[j] \notin WSP})

(* the loop of consumeAtom: the position of the first character from i on *)
(* that is not atext.                                                      *)
AtomEnd(s, i, dot) ==
    FirstOf({j \in i..(Len(s) + 1) : j = Len(s) + 1 \/ ~isAtext(s[j], dot)})

HasDoubleDot(a) == \E k \in 1..(Len(a) - 1) : a[k] = "." /\ a[k + 1] = "."

ParseFail(i) == [ok |-> FALSE, val |-> <<>>, next |-> i]

(* the three dot tests of a non-permissive consumeAtom *)
BadDots(atom) ==
    atom[1] = "." \/ HasDoubleDot(atom) \/ atom[Len(atom)] = "."

(* consumeAtom once the loop has stopped at position e *)
AtomFrom(s, i, e, permissive) ==
    IF e = i THEN ParseFail(i)
    ELSE IF ~permissive /\ BadDots(SubSeq(s, i, e - 1)) THEN ParseFail(e)
    ELSE [ok |-> TRUE, val |-> SubSeq(s, i, e - 1), next |-> e]

consumeAtom(s, i, dot, permissive) == AtomFrom(s, i, AtomEnd(s, i, dot), permissive)

(* the loop of consumeQuotedString, entered after the opening quote *)
RECURSIVE QuotedLoop(_, _, _, _)
QuotedLoop(s, i, escaped, qsb) ==
    IF i > Len(s) THEN ParseFail(i)
    ELSE IF escaped
         THEN IF ~isVchar(s[i]) /\ s[i] \notin WSP THEN ParseFail(i)
              ELSE QuotedLoop(s, i + 1, FALSE, Append(qsb, s[i]))
    ELSE IF isQtext(s[i]) \/ s[i] \in WSP
         THEN QuotedLoop(s, i + 1, FALSE, Append(qsb, s[i]))
    ELSE IF s[i] = "\"" THEN [ok |-> TRUE, val |-> qsb, next |-> i + 1]
    ELSE IF s[i] = "\\" THEN QuotedLoop(s, i + 1, TRUE, qsb)
    ELSE ParseFail(i)

consumeQuotedString(s, i) == QuotedLoop(s, i + 1, FALSE, <<>>)

(* consumeAddrSpec, step by step.  i is the position on entry: on an      *)
(* error the deferred function restores the parser, next = i.              *)

(* an empty quoted string is an error in an addr-spec *)
NonEmptyQuoted(q, j) == IF q.val = <<>> THEN ParseFail(j) ELSE q

(* local-part = dot-atom / quoted-string, at position j *)
LocalPartAt(s, j) ==
    IF s[j] = "\"" THEN NonEmptyQuoted(consumeQuotedString(s, j), j)
    ELSE consumeAtom(s, j, TRUE, FALSE)

(* the end of consumeAddrSpec: local part lp and domain dm joined by '@' *)
AddrSpecJoin(i, lp, dm) ==
    IF ~dm.ok THEN ParseFail(i)
    ELSE [ok |-> TRUE, val |-> lp.val \o <<"@">> \o dm.val, next |-> dm.next]

(* domain = dot-atom, at position k after the skipped space *)
AddrSpecDomainAt(s, i, lp, k) ==
    IF k > Len(s) THEN ParseFail(i)
    ELSE AddrSpecJoin(i, lp, consumeAtom(s, k, TRUE, FALSE))

(* after the local part lp: consume('@'), skipSpace, the domain *)
AddrSpecAfterLocal(s, i, lp) ==
    IF ~lp.ok THEN ParseFail(i)
    ELSE IF ~(lp.next <= Len(s) /\ s[lp.next] = "@") THEN ParseFail(i)
    ELSE AddrSpecDomainAt(s, i, lp, skipSpace(s, lp.next + 1))

(* after the leading skipSpace, which stopped at j *)
AddrSpecAt(s, i, j) ==
    IF j > Len(s) THEN ParseFail(i)
    ELSE AddrSpecAfterLocal(s, i, LocalPartAt(s, j))

consumeAddrSpec(s, i) == AddrSpecAt(s, i, skipSpace(s, i))

(* word = atom / quoted-string, at position j; the atom is permissive *)
WordAt(s, j) ==
    IF s[j] = "\"" THEN consumeQuotedString(s, j)
    ELSE consumeAtom(s, j, TRUE, TRUE)

(* consumePhrase: one or more words; an error after the first word is     *)
(* ignored.  The phrase itself (the display name) is not used by the       *)
(* caller of ParseAddress in this program, only the position after it.     *)
RECURSIVE PhraseLoop(_, _, _)
PhraseWord(s, j, nwords, w) ==
    IF ~w.ok THEN [ok |-> nwords > 0, val |-> <<>>, next |-> j]
    ELSE PhraseLoop(s, w.next, nwords + 1)

PhraseAt(s, j, nwords) ==
    IF j > Len(s) THEN [ok |-> nwords > 0, val |-> <<>>, next |-> j]
    ELSE PhraseWord(s, j, nwords, WordAt(s, j))

PhraseLoop(s, i, nwords) == PhraseAt(s, skipSpace(s, i), nwords)

consumePhrase(s, i) == PhraseLoop(s, i, 0)

(* parseAddress, step by step *)

(* the end of the name-addr form: the addr-spec sp, then consume('>') *)
AngleAddrClose(s, j, sp) ==
    IF ~sp.ok THEN ParseFail(j)
    ELSE IF ~(sp.next <= Len(s) /\ s[sp.next] = ">") THEN ParseFail(j)
    ELSE [ok |-> TRUE, val |-> sp.val, next |-> sp.next + 1]

(* angle-addr = "<" addr-spec ">", at position j after the skipped space *)
AngleAddrAt(s, j) ==
    IF ~(j <= Len(s) /\ s[j] = "<") THEN ParseFail(j)
    ELSE AngleAddrClose(s, j, consumeAddrSpec(s, j + 1))

(* after the display name ph *)
AfterPhrase(s, i, ph) ==
    IF ~ph.ok THEN ParseFail(i)
    ELSE AngleAddrAt(s, skipSpace(s, ph.next))

(* the display name, unless the input starts with '<' *)
DisplayNameAt(s, i) ==
    IF s[i] # "<" THEN consumePhrase(s, i)
    ELSE [ok |-> TRUE, val |-> <<>>, next |-> i]

(* addr-spec is tried first, name-addr is the fallback *)
AddressFrom(s, i, spec) ==
    IF spec.ok THEN [ok |-> TRUE, val |-> spec.val, next |-> skipSpace(s, spec.next)]
    ELSE AfterPhrase(s, i, DisplayNameAt(s, i))

AddressAt(s, i) ==
    IF i > Len(s) THEN ParseFail(i)
    ELSE AddressFrom(s, i, consumeAddrSpec(s, i))

parseAddress(s, i0) == AddressAt(s, skipSpace(s, i0))

(* parseSingleAddress: nothing but space may follow the address *)
SingleAddress(s, a) ==
    IF ~a.ok THEN [ok |-> FALSE, Address |-> <<>>]
    ELSE IF skipSpace(s, a.next) <= Len(s) THEN [ok |-> FALSE, Address |-> <<>>]
    ELSE [ok |-> TRUE, Address |-> a.val]

(* mail.ParseAddress: [ok, Address] *)
ParseAddress(s) == SingleAddress(s, parseAddress(s, 1))

---------------------------------------------------------------------------
(* validateEmail *)

Failure(msg) == [ok |-> FALSE, email |-> <<>>, err |-> msg]
Success(e) == [ok |-> TRUE, email |-> e, err |-> ""]

(* the checks on the two parts, with the dot test ahead of the local part *)
ValidateParts_DotBeforeLocal(email, localPart, domain) ==
    IF ~Contains(domain, ".") THEN Failure(MsgNoDot)
    ELSE IF Len(localPart) = 0 \/ Len(localPart) > MaxLocalLen THEN Failure(MsgLocal)
    ELSE IF Len(domain) = 0 \/ Len(domain) > MaxDomainLen THEN Failure(MsgDomain)
    ELSE Success(ToLower(email))

(* the checks on the two parts, without the final strings.ToLower *)
ValidateParts_NoLower(email, localPart, domain) ==
    IF Len(localPart) = 0 \/ Len(localPart) > MaxLocalLen THEN Failure(MsgLocal)
    ELSE IF Len(domain) = 0 \/ Len(domain) > MaxDomainLen THEN Failure(MsgDomain)
    ELSE IF ~Contains(domain, ".") THEN Failure(MsgNoDot)
    ELSE Success(email)

(* lines 100-121: local part, domain, dot in domain, lowercase *)
ValidateParts(email, localPart, domain) ==
    IF Len(localPart) = 0 \/ Len(localPart) > MaxLocalLen THEN Failure(MsgLocal)
    ELSE IF Len(domain) = 0 \/ Len(domain) > MaxDomainLen THEN Failure(MsgDomain)
    ELSE IF ~Contains(domain, ".") THEN Failure(MsgNoDot)
    ELSE Success(ToLower(email))

(* lines 94-98: split the extracted address on '@' *)
ValidateSplit(email, parts) ==
    IF Len(parts) # 2 THEN Failure(MsgFormat)
    ELSE ValidateParts(email, parts[1], parts[2])

(* lines 86-92: the result of mail.ParseAddress *)
ValidateParsed(addr) ==
    IF ~addr.ok THEN Failure(MsgFormat)
    ELSE ValidateSplit(addr.Address, Split(addr.Address, "@"))

(* the checks on the trimmed input, with the length limit as >= *)
ValidateTrimmed_LenOffByOne(email) ==
    IF email = <<>> THEN Failure(MsgEmpty)
    ELSE IF Len(email) >= MaxEmailLen THEN Failure(MsgTooLong)
    ELSE ValidateParsed(ParseAddress(email))

(* lines 75-89: empty, too long, parse *)
ValidateTrimmed(email) ==
    IF email = <<>> THEN Failure(MsgEmpty)
    ELSE IF Len(email) > MaxEmailLen THEN Failure(MsgTooLong)
    ELSE ValidateParsed(ParseAddress(email))

validateEmail(raw) == ValidateTrimmed(TrimSpace(raw))

---------------------------------------------------------------------------
(* Bounds of the model *)

MaxLen == 3          \* every string over Alphabet up to this length is an input
MaxInflight == 2     \* POST requests between validation and db.Create
MaxOver == 1         \* requests over the rate limit modelled per window

---------------------------------------------------------------------------
(* Inputs of validateEmail *)

Rep(c, n) == [i \in 1..n |-> c]

Alphabet == {"a", "B", "@", ".", " ", "\"", "<", ">"}

RECURSIVE StringsUpTo(_)
StringsUpTo(n) ==
    IF n = 0 THEN {<<>>}
    ELSE LET shorter == StringsUpTo(n - 1)
         IN  shorter \cup {Append(t, c) : t \in {u \in shorter : Len(u) = n - 1}, c \in Alphabet}

Leads == {<<>>, <<" ">>}
Trails == {<<>>, <<" ">>}
Wraps == { [pre |-> <<>>, post |-> <<>>],
           [pre |-> <<"x", " ", "<">>, post |-> <<">">>],
           [pre |-> <<"<">>, post |-> <<">">>],
           [pre |-> <<"x", " ", "<">>, post |-> <<>>] }
Locals == { <<>>, <<"a">>, <<"A">>, <<"a", ".", "B">>, <<"a", " ", "b">>,
            <<"\"", "a", " ", "B", "\"">>, <<"\"", " ", "a", "\"">>, <<"\"", "a", "@", "b", "\"">>, <<"\"", "a", "\\", "\"", "b", "\"">>,
            Rep("a", MaxLocalLen), Rep("a", MaxLocalLen + 1) }
Ats == { <<"@">>, <<>>, <<"@", "@">> }
Domains == { <<>>, <<"b", ".", "c">>, <<"B", ".", "C">>, <<"b">>,
             Rep("b", MaxEmailLen - MaxLocalLen - 3) \o <<".", "c">>,
             Rep("b", MaxEmailLen - MaxLocalLen - 2) \o <<".", "c">> }

Composed ==
    { ld \o w.pre \o lp \o at \o dm \o w.post \o tr :
        ld \in Leads, w \in Wraps, lp \in Locals, at \in Ats, dm \in Domains, tr \in Trails }

Inputs == StringsUpTo(MaxLen) \cup Composed

(* Other spellings of the same address: letter case, surrounding          *)
(* whitespace, display-name form.                                          *)
ToUpper(s) == [i \in 1..Len(s) |-> UpperChar(s[i])]

Respellings(s) ==
    { ToUpper(s), ToLower(s), <<" ">> \o s, s \o <<" ", " ">>, <<"\t">> \o s \o <<" ">>,
      <<"x", " ", "<">> \o s \o <<">">>, <<"\"", "x", " ", "y", "\"", " ", "<">> \o s \o <<">">>, <<"<">> \o s \o <<">">> }

---------------------------------------------------------------------------
(* The server: storage, rate limiter, requests *)

Secret == <<"D", "o", "r", "a", "d", "o", "2", "0", "2", "5", "!", "?">>
BearerPrefix == <<"B", "e", "a", "r", "e", "r", " ">>

Clients == {"ip1"}

(* Request bodies of POST /users: malformed JSON, an object without the    *)
(* email field, an object with it.                                         *)
Body(kind, email) == [kind |-> kind, email |-> email]

ServerEmails == { <<"a", "@", "b", ".", "c">>,
                  <<" ", "A", "@", "B", ".", "C", " ">>,
                  <<"x", " ", "<", "a", "@", "b", ".", "c", ">">>,
                  <<" ", " ", "T", "e", "s", "t", "@", "E", "x", "a", "m", "p", "l", "e", ".", "C", "O", "M", " ", " ">>,
                  <<>>,
                  <<"u", "s", "e", "r", "@", "l", "o", "c", "a", "l", "h", "o", "s", "t">> }

Bodies == { Body("malformed", <<>>), Body("missing", <<>>) }
          \cup { Body("email", e) : e \in ServerEmails }

Headers == { <<>>, Secret, BearerPrefix \o Secret, BearerPrefix,
             BearerPrefix \o <<"d", "o", "r", "a", "d", "o", "2", "0", "2", "5", "!", "?">>, BearerPrefix \o BearerPrefix \o Secret }

NoBody == Body("none", <<>>)
None == [body |-> NoBody, email |-> <<>>]
Slots == 1..MaxInflight

NoResult == [ok |-> FALSE, email |-> <<>>, err |-> "none"]
NoResponse == [route |-> "none", body |-> NoBody, header |-> <<>>, status |-> 0,
               error |-> "", message |-> "", data |-> <<>>]

VARIABLES
    variant,    \* which main of main.go runs: "seed" (lines 18-40) or "server" (134-243)
    started,    \* main has reached r.Run()
    db,         \* the users table, in insertion order; a row is [Email |-> e].  ID and
                \* CreatedAt are assigned by the database and read by no handler.
    hits,       \* the limiter's store: requests counted per client in the current window
    inflight,   \* POST /users requests that passed validateEmail and have not yet
                \* called db.Create: [body, email (validatedEmail)] per slot
    resp,       \* the response written last
    fnIn,       \* validateEmail on its own: the input,
    fnOut,      \* its result,
    fnAgain,    \* the result of validating that result,
    fnVar,      \* another spelling of the input
    fnVarOut    \* and its result

serverVars == <<variant, started, db, hits, inflight, resp>>
fnVars == <<fnIn, fnOut, fnAgain, fnVar, fnVarOut>>
vars == <<variant, started, db, hits, inflight, resp,
          fnIn, fnOut, fnAgain, fnVar, fnVarOut>>

Emails(table) == {table[i].Email : i \in 1..Len(table)}

ErrUnique == "UNIQUE constraint failed: users.email"

(* db.Create on a table without the unique index *)
dbCreate_NoUnique(table, email) ==
    [table |-> Append(table, [Email |-> email]), err |-> ""]

(* db.Create(&User{Email: email}) against the unique index on email *)
dbCreate(table, email) ==
    IF email \in Emails(table)
    THEN [table |-> table, err |-> ErrUnique]
    ELSE [table |-> Append(table, [Email |-> email]), err |-> ""]

(* c.ShouldBindJSON(&user) *)
ShouldBindJSON(body) ==
    IF body.kind = "malformed"
    THEN [ok |-> FALSE, Email |-> <<>>, err |-> "invalid character '}' looking for beginning of value"]
    ELSE [ok |-> TRUE, Email |-> IF body.kind = "email" THEN body.email ELSE <<>>, err |-> ""]

ServerInit ==
    /\ variant \in {"seed", "server"}
    /\ started = FALSE
    /\ db = <<>>
    /\ hits = [ip \in Clients |-> 0]
    /\ inflight = [r \in Slots |-> None]
    /\ resp = NoResponse

FnIdle ==
    /\ fnIn = <<>>
    /\ fnOut = NoResult
    /\ fnAgain = NoResult
    /\ fnVar = <<>>
    /\ fnVarOut = NoResult

Response(route, body, header, status, error, message, data) ==
    [route |-> route, body |-> body, header |-> header, status |-> status,
     error |-> error, message |-> message, data |-> data]

---------------------------------------------------------------------------
(* main: the two variants of main.go *)

(* The first variant: AutoMigrate, then db.Create(&User{Email: "bibibi"}); *)
(* an error of the insert is only logged.  It serves /ping alone.          *)
SeedEmail == <<"b", "i", "b", "i", "b", "i">>

SeedMain ==
    /\ variant = "seed"
    /\ ~started
    /\ started' = TRUE
    /\ db' = dbCreate(db, SeedEmail).table
    /\ UNCHANGED <<variant, hits, inflight, resp>>
    /\ UNCHANGED fnVars

(* The second variant: AutoMigrate, routes, r.Run() *)
ServerMain ==
    /\ variant = "server"
    /\ ~started
    /\ started' = TRUE
    /\ UNCHANGED <<variant, db, hits, inflight, resp>>
    /\ UNCHANGED fnVars

Ping ==
    /\ started
    /\ resp' = Response("GET /ping", NoBody, <<>>, 200, "", "pong", <<>>)
    /\ UNCHANGED <<variant, started, db, hits, inflight>>
    /\ UNCHANGED fnVars

(* GET /users without the test that the "Bearer " prefix was present *)
GetUsersResponse_NoPrefixCheck(authHeader, table) ==
    IF authHeader = <<>>
    THEN Response("GET /users", NoBody, authHeader, 401,
                  "unauthorized: missing authorization header", "", <<>>)
    ELSE LET password == TrimPrefix(authHeader, BearerPrefix)
         IN  IF password # Secret
             THEN Response("GET /users", NoBody, authHeader, 401,
                           "unauthorized: invalid password", "", <<>>)
             ELSE Response("GET /users", NoBody, authHeader, 200, "", "", table)

(* GET /users *)
GetUsersResponse(authHeader, table) ==
    IF authHeader = <<>>
    THEN Response("GET /users", NoBody, authHeader, 401,
                  "unauthorized: missing authorization header", "", <<>>)
    ELSE LET password == TrimPrefix(authHeader, BearerPrefix)
         IN  IF password = authHeader \/ password # Secret
             THEN Response("GET /users", NoBody, authHeader, 401,
                           "unauthorized: invalid password", "", <<>>)
             ELSE Response("GET /users", NoBody, authHeader, 200, "", "", table)

GetUsers(authHeader) ==
    /\ started
    /\ variant = "server"
    /\ resp' = GetUsersResponse(authHeader, db)
    /\ UNCHANGED <<variant, started, db, hits, inflight>>
    /\ UNCHANGED fnVars

(* The rate limiter in front of POST /users: the in-memory store counts    *)
(* the requests of a client in the current window; a request is refused    *)
(* when the count, this request included, exceeds the limit.               *)
LimitReached(count) == count > RateLimit

(* the handler creating the user with user.Email instead of validatedEmail *)
PostValidate_StoreRaw(body) ==
    LET bound == ShouldBindJSON(body)
    IN  IF ~bound.ok
        THEN [done |-> TRUE, email |-> <<>>,
              resp |-> Response("POST /users", body, <<>>, 400, bound.err, "", <<>>)]
        ELSE LET v == validateEmail(bound.Email)
             IN  IF ~v.ok
                 THEN [done |-> TRUE, email |-> <<>>,
                       resp |-> Response("POST /users", body, <<>>, 400, v.err, "", <<>>)]
                 ELSE [done |-> FALSE, email |-> bound.Email, resp |-> NoResponse]

(* the handler without the call of validateEmail *)
PostValidate_BindOnly(body) ==
    LET bound == ShouldBindJSON(body)
    IN  IF ~bound.ok
        THEN [done |-> TRUE, email |-> <<>>,
              resp |-> Response("POST /users", body, <<>>, 400, bound.err, "", <<>>)]
        ELSE [done |-> FALSE, email |-> bound.Email, resp |-> NoResponse]

(* What the handler of POST /users does before it reaches storage:         *)
(* [done, resp] when it answers, [~done, email] when it goes on to Create. *)
PostValidate(body) ==
    LET bound == ShouldBindJSON(body)
    IN  IF ~bound.ok
        THEN [done |-> TRUE, email |-> <<>>,
              resp |-> Response("POST /users", body, <<>>, 400, bound.err, "", <<>>)]
        ELSE LET v == validateEmail(bound.Email)
             IN  IF ~v.ok
                 THEN [done |-> TRUE, email |-> <<>>,
                       resp |-> Response("POST /users", body, <<>>, 400, v.err, "", <<>>)]
                 ELSE [done |-> FALSE, email |-> v.email, resp |-> NoResponse]

(* PostValidate of every body the model sends, computed once *)
Handled == [b \in Bodies |-> PostValidate(b)]

FreeSlot == CHOOSE r \in Slots : inflight[r] = None /\ \A q \in Slots : q < r => inflight[q] # None

(* A POST /users request arrives: middleware, bind, validate *)
PostArrive(ip, body) ==
    /\ started
    /\ variant = "server"
    /\ hits[ip] < RateLimit + MaxOver
    /\ hits' = [hits EXCEPT ![ip] = @ + 1]
    /\ IF LimitReached(hits[ip] + 1)
       THEN /\ resp' = Response("POST /users", body, <<>>, 429, "Limit exceeded", "", <<>>)
            /\ UNCHANGED inflight
       ELSE LET h == Handled[body]
            IN  IF h.done
                THEN /\ resp' = h.resp
                     /\ UNCHANGED inflight
                ELSE /\ \E r \in Slots : inflight[r] = None
                     /\ inflight' = [inflight EXCEPT ![FreeSlot] = [body |-> body, email |-> h.email]]
                     /\ UNCHANGED resp
    /\ UNCHANGED <<variant, started, db>>
    /\ UNCHANGED fnVars

(* The response of the handler to the result of db.Create *)
PostCreateResponse(body, err) ==
    IF err # ""
    THEN Response("POST /users", body, <<>>, 500, err, "", <<>>)
    ELSE Response("POST /users", body, <<>>, 200, "", "user created", <<>>)

(* The request in slot r reaches storage: db.Create, then the response *)
PostCreate(r) ==
    /\ inflight[r] # None
    /\ LET result == dbCreate(db, inflight[r].email)
       IN  /\ db' = result.table
           /\ resp' = PostCreateResponse(inflight[r].body, result.err)
    /\ inflight' = [inflight EXCEPT ![r] = None]
    /\ UNCHANGED <<variant, started, hits>>
    /\ UNCHANGED fnVars

(* The limiter's window of a client expires *)
LimiterExpire(ip) ==
    /\ hits[ip] > 0
    /\ hits' = [hits EXCEPT ![ip] = 0]
    /\ UNCHANGED <<variant, started, db, inflight, resp>>
    /\ UNCHANGED fnVars

Init == ServerInit /\ FnIdle

Next ==
    \/ SeedMain
    \/ ServerMain
    \/ Ping
    \/ \E h \in Headers : GetUsers(h)
    \/ \E ip \in Clients, b \in Bodies : PostArrive(ip, b)
    \/ \E r \in Slots : PostCreate(r)
    \/ \E ip \in Clients : LimiterExpire(ip)

Spec == Init /\ [][Next]_vars

---------------------------------------------------------------------------
(* validateEmail on its own: one input, validated, validated again, and    *)
(* compared with another spelling of the same address.                     *)

InitFn ==
    /\ variant = "server"
    /\ started = FALSE
    /\ db = <<>>
    /\ hits = [ip \in Clients |-> 0]
    /\ inflight = [r \in Slots |-> None]
    /\ resp = NoResponse
    /\ fnIn \in Inputs
    /\ fnOut = NoResult
    /\ fnAgain = NoResult
    /\ fnVar = <<>>
    /\ fnVarOut = NoResult

Validate ==
    /\ fnOut = NoResult
    /\ fnOut' = validateEmail(fnIn)
    /\ UNCHANGED <<fnIn, fnAgain, fnVar, fnVarOut>>
    /\ UNCHANGED serverVars

Revalidate ==
    /\ fnOut.ok
    /\ fnAgain = NoResult
    /\ fnAgain' = validateEmail(fnOut.email)
    /\ UNCHANGED <<fnIn, fnOut, fnVar, fnVarOut>>
    /\ UNCHANGED serverVars

Respell ==
    /\ fnOut # NoResult
    /\ fnVarOut = NoResult
    /\ \E v \in Respellings(fnIn) :
          /\ fnVar' = v
          /\ fnVarOut' = validateEmail(v)
    /\ UNCHANGED <<fnIn, fnOut, fnAgain>>
    /\ UNCHANGED serverVars

NextFn ==
    \/ Validate
    \/ Revalidate
    \/ Respell

SpecFn == InitFn /\ [][NextFn]_vars

---------------------------------------------------------------------------
(* Properties of validateEmail (checked under SpecFn) *)

AtCount(a) == Cardinality({i \in 1..Len(a) : a[i] = "@"})
FirstAt(a) == FirstOf({i \in 1..Len(a) : a[i] = "@"})
LocalOf(a) == SubSeq(a, 1, FirstAt(a) - 1)
DomainOf(a) == SubSeq(a, FirstAt(a) + 1, Len(a))

(* the seven rules, each stated on the trimmed input t and on p, the    *)
(* result of parsing t                                                     *)
Violates(k, t, p) ==
    LET a == p.Address
    IN  CASE k = 1 -> t = <<>>
          [] k = 2 -> Len(t) > MaxEmailLen
          [] k = 3 -> ~p.ok
          [] k = 4 -> p.ok /\ AtCount(a) # 1
          [] k = 5 -> p.ok /\ AtCount(a) = 1
                      /\ (LocalOf(a) = <<>> \/ Len(LocalOf(a)) > MaxLocalLen)
          [] k = 6 -> p.ok /\ AtCount(a) = 1
                      /\ (DomainOf(a) = <<>> \/ Len(DomainOf(a)) > MaxDomainLen)
          [] k = 7 -> p.ok /\ AtCount(a) = 1 /\ "." \notin {DomainOf(a)[i] : i \in 1..Len(DomainOf(a))}

RuleMsg == <<MsgEmpty, MsgTooLong, MsgFormat, MsgFormat, MsgLocal, MsgDomain, MsgNoDot>>

Violated(t) == LET p == ParseAddress(t) IN {k \in 1..7 : Violates(k, t, p)}

(* C1: validateEmail reports the failure of the first rule, in the order  *)
(* empty, too long, parse, two '@' parts, local part, domain, dot in       *)
(* domain, that the trimmed input violates, and succeeds when the input    *)
(* violates none.                                                          *)
C1_FirstViolatedRule ==
    fnOut # NoResult =>
        LET V == Violated(TrimSpace(fnIn))
        IN  IF V = {} THEN fnOut.ok
            ELSE ~fnOut.ok /\ fnOut.err = RuleMsg[FirstOf(V)]

(* an input that violates two rules; the earlier one is reported *)
C1_Witness ==
    /\ fnOut.err = MsgLocal
    /\ {5, 7} \subseteq Violated(TrimSpace(fnIn))

IsCanonicalEmail(e) ==
    /\ e # <<>>
    /\ Len(e) <= MaxEmailLen
    /\ AtCount(e) = 1
    /\ LocalOf(e) # <<>>
    /\ Len(LocalOf(e)) <= MaxLocalLen
    /\ DomainOf(e) # <<>>
    /\ \E i \in 1..Len(DomainOf(e)) : DomainOf(e)[i] = "."
    /\ \A i \in 1..Len(e) : LowerChar(e[i]) = e[i]
    /\ ~IsSpace(e[1])
    /\ ~IsSpace(e[Len(e)])

(* C2: every string validateEmail returns as a success is a               *)
(* CanonicalEmail, and an input with a space inside the address is never   *)
(* a success (stated for the inputs that are a bare address, without       *)
(* angle brackets: there every space left after trimming is inside the     *)
(* address).                                                               *)
C2_SuccessIsCanonical ==
    fnOut.ok =>
        /\ IsCanonicalEmail(fnOut.email)
        /\ \A i \in 1..Len(TrimSpace(fnIn)) :
              TrimSpace(fnIn)[i] = " " =>
                 \E j \in 1..Len(TrimSpace(fnIn)) : TrimSpace(fnIn)[j] \in {"<", ">"}

(* C3: validating the result of a successful validation succeeds and      *)
(* returns the same string.                                                *)
C3_Idempotent == fnAgain # NoResult => fnAgain = fnOut

C8_TrimmedWitness ==
    /\ fnOut.ok
    /\ Len(fnIn) > MaxEmailLen
    /\ Len(TrimSpace(fnIn)) = MaxEmailLen

(* C9: two spellings of the same address (letter case, surrounding        *)
(* whitespace, display-name form) on which validateEmail succeeds yield    *)
(* the same string.                                                        *)
C9_Comparable ==
    (fnOut.ok /\ fnVarOut.ok) => fnVarOut.email = fnOut.email

C9_Witness ==
    /\ fnOut.ok
    /\ fnVarOut.ok
    /\ \E i \in 1..Len(fnVar) : fnVar[i] = "<"
    /\ \A i \in 1..Len(fnIn) : fnIn[i] # "<"
    /\ \E i \in 1..Len(fnIn) : LowerChar(fnIn[i]) # fnIn[i]

---------------------------------------------------------------------------
(* Properties of the server (checked under Spec) *)

NoDuplicateEmails(table) ==
    \A i, j \in 1..Len(table) : table[i].Email = table[j].Email => i = j

(* the request in slot r reaches storage in this step *)
CreateStep(r) == inflight[r] # None /\ inflight'[r] = None

(* what validateEmail makes of the email of a body *)
Normalized(body) == validateEmail(ShouldBindJSON(body).Email)

(* C4: of the requests whose inputs normalize to the same email the first *)
(* to reach storage is answered 200, every later one 500 with the          *)
(* uniqueness conflict, and storage never holds an email twice.            *)
C4_FirstWins ==
    [][ /\ NoDuplicateEmails(db')
        /\ \A r \in Slots :
              CreateStep(r) =>
                 LET e == Normalized(inflight[r].body).email
                 IN  IF e \in Emails(db)
                     THEN resp'.status = 500 /\ resp'.error = ErrUnique /\ db' = db
                     ELSE resp'.status = 200 /\ Emails(db') = Emails(db) \cup {e}
      ]_vars

(* a second spelling of a stored address met the uniqueness conflict *)
C4_Witness ==
    /\ resp.status = 500
    /\ resp.error = ErrUnique
    /\ resp.body.email = <<" ", "A", "@", "B", ".", "C", " ">>
    /\ <<"a", "@", "b", ".", "c">> \in Emails(db)

(* C5: a step that answers POST /users with 200 "user created" appends    *)
(* exactly one user, whose email is validateEmail of the input, and no     *)
(* step removes or changes a stored user.                                  *)
C5_CreatedIsStored ==
    [][ /\ (/\ resp'.route = "POST /users"
            /\ resp'.status = 200
            /\ (resp' # resp \/ \E r \in Slots : CreateStep(r)))
           => /\ resp'.message = "user created"
              /\ Normalized(resp'.body).ok
              /\ db' = Append(db, [Email |-> Normalized(resp'.body).email])
        /\ Len(db') >= Len(db)
        /\ SubSeq(db', 1, Len(db)) = db
      ]_vars

C5_Witness ==
    /\ resp.route = "POST /users"
    /\ resp.status = 200
    /\ resp.body.email = <<" ", " ", "T", "e", "s", "t", "@", "E", "x", "a", "m", "p", "l", "e", ".", "C", "O", "M", " ", " ">>
    /\ <<"t", "e", "s", "t", "@", "e", "x", "a", "m", "p", "l", "e", ".", "c", "o", "m">> \in Emails(db)

(* a POST /users request arrives in this step *)
ArrivalStep(ip) == hits'[ip] = hits[ip] + 1

BadBody(b) == ~ShouldBindJSON(b).ok \/ ~Normalized(b).ok

Rejected400(b) ==
    /\ resp'.route = "POST /users"
    /\ resp'.body = b
    /\ resp'.status = 400
    /\ resp'.error # ""
    /\ (ShouldBindJSON(b).ok => resp'.error = Normalized(b).err)
    /\ db' = db
    /\ inflight' = inflight

NoBadBodyAdmitted ==
    \A r \in Slots :
       (inflight[r] = None /\ inflight'[r] # None) => ~BadBody(inflight'[r].body)

C10_StoredAreCanonical ==
    \A i \in 1..Len(db) :
       /\ IsCanonicalEmail(db[i].Email)
       /\ \E b \in Bodies : Normalized(b).ok /\ Normalized(b).email = db[i].Email

====
